---------------------------- MODULE Spec2Model ----------------------------
(***************************************************************************)
(* Model of the credit-card recommender: the relational store and the     *)
(* RecommendationEngine (backend/app/services/recommendation_engine.py).  *)
(*                                                                         *)
(* Numbers.  The program computes in floats; the model computes exactly,  *)
(* in fixed point:                                                         *)
(*   - spend amounts, caps and annual fees are whole currency units;      *)
(*   - a reward_rate is held as its numerator over RateDen (50 is 5%);    *)
(*   - a reward amount (cashback, points) is amount * rate numerator,     *)
(*     i.e. it is held in 1/RateDen units;                                 *)
(*   - a net benefit is held in 1/(RateDen * PointsDen) units, so that    *)
(*     the 0.01 cash value of a point is exact.                            *)
(* A nullable column holds << >> for NULL and <<v>> for the value v.      *)
(***************************************************************************)
EXTENDS Integers, Sequences, FiniteSets, TLC

VARIABLES
    credit_cards,   \* table credit_cards, row i has id i
    card_rewards,   \* table card_rewards, in id order
    user_cards,     \* table user_cards, in id order
    expenses,       \* table expenses, in id order
    response,       \* what the last request returned
    categories,     \* table categories: the names, row i has id i
    merchants,      \* table merchants, row i has id i
    inflight        \* per worker, the request it is in the middle of

vars == <<credit_cards, card_rewards, user_cards, expenses, response,
          categories, merchants, inflight>>

NULL == << >>

Some(v) == <<v>>

\* Python truthiness of a nullable Float: None and 0.0 are both falsy.
Truthy(opt) == opt # NULL /\ opt[1] # 0

RateDen == 1000

PointsDen == 100

MonthsPerYear == 12

DaysPerMonth == 30

DefaultMonths == 3

TopN == 5

Min(a, b) == IF a <= b THEN a ELSE b

RECURSIVE SumOver(_, _)
\* sum of f[x] over the finite set S
SumOver(f, S) ==
    IF S = {} THEN 0
    ELSE LET x == CHOOSE y \in S : TRUE IN f[x] + SumOver(f, S \ {x})

RECURSIVE SumSeq(_)
SumSeq(s) == IF s = << >> THEN 0 ELSE Head(s) + SumSeq(Tail(s))

RECURSIVE Flatten(_)
Flatten(ss) == IF ss = << >> THEN << >> ELSE Head(ss) \o Flatten(Tail(ss))

(***************************************************************************)
(* Reference data: categories and merchants (seeded once, never changed   *)
(* by the engine).  A category is identified by its unique name.          *)
(***************************************************************************)
Categories == {"Petrol", "Groceries"}

\* merchants table: row i has id i
Merchants ==
    << [name |-> "Shell", category |-> "Petrol"],
       [name |-> "Tesco", category |-> "Groceries"] >>

MerchantIds == 1..Len(Merchants)

\* the categories table the merchants above refer to
CategoryRows == << "Petrol", "Groceries" >>

\* the workers that serve requests side by side
Workers == {1, 2}

\* a worker between two requests
Idle == [pc |-> "idle"]

NoRequests == [w \in Workers |-> Idle]


(***************************************************************************)
(* get_user_spending_pattern: the user's expenses dated inside            *)
(* [now - months*30 days, now], joined to their merchant's category,      *)
(* summed per (category, calendar month) and averaged per category.       *)
(* An expense_date is held as its two projections the query reads:        *)
(* ago, the days between it and now, and ym, its calendar month.          *)
(***************************************************************************)
\* mutant of InWindow: the lower end of the window is missing
InWindowAnyAge(expense, months) == expense.expense_date.ago >= 0

InWindow(expense, months) ==
    /\ expense.expense_date.ago >= 0
    /\ expense.expense_date.ago <= months * DaysPerMonth

GetUserSpendingPattern(user_id, months) ==
    LET rows == { i \in 1..Len(expenses) :
                    /\ expenses[i].user_id = user_id
                    /\ expenses[i].merchant_id \in MerchantIds
                    /\ InWindow(expenses[i], months) }
        CategoryOf(i) == Merchants[expenses[i].merchant_id].category
        RowsOf(c) == { i \in rows : CategoryOf(i) = c }
        MonthsOf(c) == { expenses[i].expense_date.ym : i \in RowsOf(c) }
        Total(c) == SumOver([i \in RowsOf(c) |-> expenses[i].amount], RowsOf(c))
    IN  [ c \in { CategoryOf(i) : i \in rows } |->
            Total(c) \div Cardinality(MonthsOf(c)) ]

(***************************************************************************)
(* calculate_card_rewards                                                  *)
(***************************************************************************)
\* db.query(CardReward).filter(credit_card_id == card.id, is_active == True)
ActiveRewards(card_id) ==
    SelectSeq(card_rewards,
              LAMBDA r : r.credit_card_id = card_id /\ r.is_active)

\* reward.category and reward.category.name == category
IsCategoryReward(reward, category) ==
    reward.category # NULL /\ reward.category[1] = category

\* reward.category is None
IsGeneralReward(reward) == reward.category = NULL

\* applicable_amount: the annual amount, capped at maximum_spend * 12 when
\* maximum_spend is truthy
ApplicableAmount(annual_amount, reward) ==
    IF Truthy(reward.maximum_spend)
    THEN Min(annual_amount, reward.maximum_spend[1] * MonthsPerYear)
    ELSE annual_amount

RECURSIVE BestRewardRateFirstSeen(_, _)
\* mutant of BestRewardRate: the first rule with a positive rate is kept
BestRewardRateFirstSeen(rewards, best) ==
    IF rewards = << >> THEN best
    ELSE LET reward == Head(rewards) IN
         BestRewardRateFirstSeen(Tail(rewards),
             IF best.rate = 0 /\ reward.reward_rate > 0
             THEN [rate |-> reward.reward_rate, type |-> reward.reward_type]
             ELSE best)

RECURSIVE BestRewardRate(_, _)
\* the scan `if reward.reward_rate > best_reward_rate`: the first of the
\* highest rates wins, and brings its reward_type
BestRewardRate(rewards, best) ==
    IF rewards = << >> THEN best
    ELSE LET reward == Head(rewards) IN
         BestRewardRate(Tail(rewards),
             IF reward.reward_rate > best.rate
             THEN [rate |-> reward.reward_rate, type |-> reward.reward_type]
             ELSE best)

\* One iteration of the loop over spending_pattern.items().  The loop
\* computes applicable_amount for every matching rule and then multiplies
\* annual_amount, not applicable_amount, by the best rate.
CategoryReward(rewards, category, monthly_amount) ==
    LET annual_amount == monthly_amount * MonthsPerYear
        specific == BestRewardRate(
                        SelectSeq(rewards, LAMBDA r : IsCategoryReward(r, category)),
                        [rate |-> 0, type |-> "cashback"])
        best == IF specific.rate = 0
                THEN BestRewardRate(SelectSeq(rewards, IsGeneralReward), specific)
                ELSE specific
    IN  [amount |-> annual_amount * best.rate,
         rate   |-> best.rate,
         type   |-> best.type]

CalculateCardRewards(card_id, spending_pattern) ==
    LET rewards == ActiveRewards(card_id)
        cats == DOMAIN spending_pattern
        breakdown == [c \in cats |->
                        CategoryReward(rewards, c, spending_pattern[c])]
        Of(type) == [c \in cats |->
                        IF (breakdown[c].type = "cashback") = (type = "cashback")
                        THEN breakdown[c].amount ELSE 0]
    IN  [total_cashback     |-> SumOver(Of("cashback"), cats),
         total_points       |-> SumOver(Of("points"), cats),
         category_breakdown |-> breakdown]

(***************************************************************************)
(* _calculate_combination_rewards                                          *)
(***************************************************************************)
RECURSIVE BestRewardAmount(_, _, _)
\* the scan `if reward_amount > best_reward` over candidate rules, with
\* reward_amount = applicable_amount * reward.reward_rate
BestRewardAmount(rewards, annual_amount, best) ==
    IF rewards = << >> THEN best
    ELSE LET reward == Head(rewards)
             reward_amount ==
                 ApplicableAmount(annual_amount, reward) * reward.reward_rate
         IN  BestRewardAmount(Tail(rewards), annual_amount,
                 IF reward_amount > best.reward
                 THEN [reward |-> reward_amount, type |-> reward.reward_type]
                 ELSE best)

\* the active rules of the cards of a combination, card by card
RewardsOfCards(cards) ==
    Flatten([k \in 1..Len(cards) |-> ActiveRewards(cards[k])])

\* One iteration of the loop over spending_pattern.items(): first the
\* category rules of every card of the combination; the general rules of
\* the cards are consulted only when that left best_reward at 0.
CombinationCategoryReward(cards, category, monthly_amount) ==
    LET annual_amount == monthly_amount * MonthsPerYear
        rewards == RewardsOfCards(cards)
        specific == BestRewardAmount(
                        SelectSeq(rewards, LAMBDA r : IsCategoryReward(r, category)),
                        annual_amount,
                        [reward |-> 0, type |-> "cashback"])
    IN  IF specific.reward = 0
        THEN BestRewardAmount(SelectSeq(rewards, IsGeneralReward),
                              annual_amount, specific)
        ELSE specific

CalculateCombinationRewards(cards, spending_pattern) ==
    LET cats == DOMAIN spending_pattern
        best == [c \in cats |->
                    CombinationCategoryReward(cards, c, spending_pattern[c])]
        Of(type) == [c \in cats |->
                        IF (best[c].type = "cashback") = (type = "cashback")
                        THEN best[c].reward ELSE 0]
    IN  [total_cashback |-> SumOver(Of("cashback"), cats),
         total_points   |-> SumOver(Of("points"), cats)]

(***************************************************************************)
(* optimize_card_combination                                               *)
(***************************************************************************)
\* db.query(CreditCard).filter(is_active == True).all(), as card ids
AvailableCards ==
    SelectSeq([i \in 1..Len(credit_cards) |-> i],
              LAMBDA i : credit_cards[i].is_active)

RECURSIVE Windows(_, _)
\* mutant of Combinations: only the runs of n neighbouring elements
Windows(s, n) ==
    IF Len(s) < n THEN << >>
    ELSE <<SubSeq(s, 1, n)>> \o Windows(Tail(s), n)

RECURSIVE Combinations(_, _)
\* itertools.combinations(s, n): the n-element subsequences of s, in
\* lexicographic order of their positions
Combinations(s, n) ==
    IF n = 0 THEN << << >> >>
    ELSE IF Len(s) < n THEN << >>
    ELSE LET with == Combinations(Tail(s), n - 1)
         IN  [k \in 1..Len(with) |-> <<Head(s)>> \o with[k]]
             \o Combinations(Tail(s), n)

\* mutant of CombinationSizes: the upper end of the range is included
CombinationSizesInclusive(max_cards, n_available) ==
    1..Min(max_cards + 1, n_available)

\* range(1, min(max_cards + 1, len(available_cards) + 1))
CombinationSizes(max_cards, n_available) ==
    1..(Min(max_cards + 1, n_available + 1) - 1)

RECURSIVE AllCombinations(_, _, _)
\* the two nested loops, from size num_cards upwards
AllCombinations(available, num_cards, sizes) ==
    IF num_cards \notin sizes THEN << >>
    ELSE Combinations(available, num_cards)
         \o AllCombinations(available, num_cards + 1, sizes)

\* sum(card.annual_fee for card in card_combination)
TotalAnnualFee(cards) ==
    SumSeq([k \in 1..Len(cards) |-> credit_cards[cards[k]].annual_fee])

\* mutant of TotalBenefit: the cash value of the points is left out
TotalBenefitWithoutPoints(total_cashback, total_points, total_annual_fee) ==
    total_cashback * PointsDen - total_annual_fee * RateDen * PointsDen

\* net_benefit = total_cashback - total_annual_fee, plus total_points * 0.01
TotalBenefit(total_cashback, total_points, total_annual_fee) ==
    (total_cashback * PointsDen - total_annual_fee * RateDen * PointsDen)
        + total_points

\* the CardCombination built for one combination
CardCombo(cards, spending_pattern) ==
    LET combination_rewards == CalculateCombinationRewards(cards, spending_pattern)
        total_annual_fee == TotalAnnualFee(cards)
    IN  [cards              |-> cards,
         projected_cashback |-> combination_rewards.total_cashback,
         projected_points   |-> combination_rewards.total_points,
         total_annual_fee   |-> total_annual_fee,
         net_benefit        |-> TotalBenefit(combination_rewards.total_cashback,
                                             combination_rewards.total_points,
                                             total_annual_fee)]

RECURSIVE InsertByNetBenefit(_, _)
\* x put behind every entry whose net benefit is at least its own
InsertByNetBenefit(sorted, x) ==
    IF sorted = << >> THEN <<x>>
    ELSE IF Head(sorted).net_benefit >= x.net_benefit
         THEN <<Head(sorted)>> \o InsertByNetBenefit(Tail(sorted), x)
         ELSE <<x>> \o sorted

\* mutant of SortByNetBenefit: the list is left in the order of enumeration
Unsorted(combos) == combos

RECURSIVE SortByNetBenefit(_)
\* list.sort(key=net_benefit, reverse=True): descending, and stable
SortByNetBenefit(combos) ==
    IF combos = << >> THEN << >>
    ELSE InsertByNetBenefit(
             SortByNetBenefit(SubSeq(combos, 1, Len(combos) - 1)),
             combos[Len(combos)])

\* best_combinations[:5]
TopCombinations(combos) == SubSeq(combos, 1, Min(TopN, Len(combos)))

\* mutant of NoSpendingData: the early return is never taken
AlwaysSpendingData(spending_pattern) == FALSE

\* `if not spending_pattern`
NoSpendingData(spending_pattern) == DOMAIN spending_pattern = {}

OptimizeCardCombination(user_id, max_cards) ==
    LET spending_pattern == GetUserSpendingPattern(user_id, DefaultMonths)
        available_cards == AvailableCards
        sizes == CombinationSizes(max_cards, Len(available_cards))
        candidates == AllCombinations(available_cards, 1, sizes)
        best_combinations ==
            [k \in 1..Len(candidates) |-> CardCombo(candidates[k], spending_pattern)]
    IN  IF NoSpendingData(spending_pattern) THEN << >>
        ELSE TopCombinations(SortByNetBenefit(best_combinations))

(***************************************************************************)
(* get_purchase_recommendation                                             *)
(***************************************************************************)
\* mutant of OwnedActiveCards: the filter CreditCard.is_active is missing
OwnedCardsAnyState(user_id) ==
    LET held == SelectSeq(user_cards,
                    LAMBDA uc : /\ uc.user_id = user_id
                                /\ uc.is_active
                                /\ uc.credit_card_id \in 1..Len(credit_cards))
    IN  [k \in 1..Len(held) |-> held[k].credit_card_id]

\* db.query(UserCard).join(CreditCard).filter(user_id, UserCard.is_active,
\* CreditCard.is_active), as the credit_card_id of each record
OwnedActiveCards(user_id) ==
    LET held == SelectSeq(user_cards,
                    LAMBDA uc : /\ uc.user_id = user_id
                                /\ uc.is_active
                                /\ uc.credit_card_id \in 1..Len(credit_cards)
                                /\ credit_cards[uc.credit_card_id].is_active)
    IN  [k \in 1..Len(held) |-> held[k].credit_card_id]

\* mutant of PurchaseRewardAmount: the merchant branch is missing
PurchaseRewardAmountNoMerchant(reward, merchant_id, amount) ==
    IF reward.category = Some(Merchants[merchant_id].category)
    THEN amount * reward.reward_rate
    ELSE IF reward.category = NULL /\ reward.merchant_id = NULL
    THEN amount * reward.reward_rate
    ELSE 0

\* the if / elif / elif of the loop body: the reward a rule yields
PurchaseRewardAmount(reward, merchant_id, amount) ==
    IF reward.category = Some(Merchants[merchant_id].category)
    THEN amount * reward.reward_rate
    ELSE IF reward.merchant_id = Some(merchant_id)
    THEN amount * reward.reward_rate
    ELSE IF reward.category = NULL /\ reward.merchant_id = NULL
    THEN amount * reward.reward_rate
    ELSE 0

RECURSIVE BestPurchaseRewardOrEqual(_, _, _, _)
\* mutant of BestPurchaseReward: `>=` in place of `>`
BestPurchaseRewardOrEqual(pairs, merchant_id, amount, best) ==
    IF pairs = << >> THEN best
    ELSE LET pair == Head(pairs)
             reward_amount == PurchaseRewardAmount(pair.reward, merchant_id, amount)
         IN  BestPurchaseRewardOrEqual(Tail(pairs), merchant_id, amount,
                 IF reward_amount >= best.reward
                 THEN [reward |-> reward_amount,
                       card   |-> Some(pair.card),
                       type   |-> pair.reward.reward_type]
                 ELSE best)

RECURSIVE BestPurchaseReward(_, _, _, _)
\* the scan `if reward_amount > best_reward` over (card, rule) pairs
BestPurchaseReward(pairs, merchant_id, amount, best) ==
    IF pairs = << >> THEN best
    ELSE LET pair == Head(pairs)
             reward_amount == PurchaseRewardAmount(pair.reward, merchant_id, amount)
         IN  BestPurchaseReward(Tail(pairs), merchant_id, amount,
                 IF reward_amount > best.reward
                 THEN [reward |-> reward_amount,
                       card   |-> Some(pair.card),
                       type   |-> pair.reward.reward_type]
                 ELSE best)

\* every active rule of every owned card, in the order the loops visit them
PurchaseCandidates(cards) ==
    Flatten([k \in 1..Len(cards) |->
                LET rewards == ActiveRewards(cards[k])
                IN  [j \in 1..Len(rewards) |->
                        [card |-> cards[k], reward |-> rewards[j]]]])

GetPurchaseRecommendation(user_id, merchant_id, amount) ==
    LET cards == OwnedActiveCards(user_id) IN
    IF cards = << >>
    THEN [message |-> "No active cards found for user"]
    ELSE IF merchant_id \notin MerchantIds
    THEN [error |-> "Merchant not found"]
    ELSE LET best == BestPurchaseReward(PurchaseCandidates(cards), merchant_id, amount,
                        [reward |-> 0, card |-> NULL, type |-> "cashback"])
         IN  IF best.card # NULL
             THEN [recommended_card |-> best.card[1],
                   reward_amount    |-> best.reward,
                   reward_type      |-> best.type,
                   merchant         |-> Merchants[merchant_id].name,
                   category         |-> Merchants[merchant_id].category]
             ELSE [message |-> "No suitable card found for this purchase"]

(***************************************************************************)
(* The store.  A catalog is a sequence of products, each a card with its  *)
(* list of rewards, stored the way init_data.py stores cards_data: the    *)
(* card row, then one card_rewards row per reward of the card.            *)
(***************************************************************************)
MaxRewards == 2

MaxCatalog == 3

MaxCards == 3

UserIds == {1, 2}

Card(annual_fee, is_active) ==
    [annual_fee |-> annual_fee, is_active |-> is_active]

Rule(category, merchant_id, reward_type, reward_rate, maximum_spend, is_active) ==
    [category      |-> category,
     merchant_id   |-> merchant_id,
     reward_type   |-> reward_type,
     reward_rate   |-> reward_rate,
     maximum_spend |-> maximum_spend,
     is_active     |-> is_active]

Product(card, rewards) == [card |-> card, rewards |-> rewards]

\* CardReward(credit_card_id=card.id, category_id=..., **reward_data)
RewardRow(card_id, rule) ==
    [credit_card_id |-> card_id,
     category       |-> rule.category,
     merchant_id    |-> rule.merchant_id,
     reward_type    |-> rule.reward_type,
     reward_rate    |-> rule.reward_rate,
     maximum_spend  |-> rule.maximum_spend,
     is_active      |-> rule.is_active]

StoredCards(catalog) == [i \in 1..Len(catalog) |-> catalog[i].card]

StoredRewards(catalog) ==
    Flatten([i \in 1..Len(catalog) |->
                [j \in 1..Len(catalog[i].rewards) |->
                    RewardRow(i, catalog[i].rewards[j])]])

SeqsUpTo(S, n) == UNION { [1..k -> S] : k \in 0..n }

Expense(user_id, merchant_id, amount, ym, ago) ==
    [user_id      |-> user_id,
     merchant_id  |-> merchant_id,
     amount       |-> amount,
     expense_date |-> [ym |-> ym, ago |-> ago]]

UserCard(user_id, credit_card_id, is_active) ==
    [user_id |-> user_id, credit_card_id |-> credit_card_id, is_active |-> is_active]

\* Expenses that no request of user 1 over the default window may count:
\* another user's, and one dated before the window.
OtherExpenses == << Expense(2, 1, 600, 11, 1), Expense(1, 2, 600, 7, 100) >>

\* user 1's spending on Petrol (merchant 1): nothing, below, at and above a
\* cap of 300, and spread over two calendar months (average 360)
PetrolSpending ==
    { << >>,
      << Expense(1, 1, 120, 11, 1) >>,
      << Expense(1, 1, 300, 11, 1) >>,
      << Expense(1, 1, 600, 11, 1) >>,
      << Expense(1, 1, 120, 11, 1), Expense(1, 1, 600, 10, 20) >> }

\* user 1's spending on Groceries (merchant 2)
GroceriesSpending == { << >>, << Expense(1, 2, 120, 10, 20) >> }

ExpenseTables ==
    { OtherExpenses \o p \o g : p \in PetrolSpending, g \in GroceriesSpending }

NoResponse == [request |-> [op |-> "none"]]

(***************************************************************************)
(* SpecCard: POST /simulate-card, the caller of calculate_card_rewards.   *)
(* Card 1 carries any list of up to MaxRewards of the rules below; card 2 *)
(* is another active card and card 3 an inactive one.                     *)
(***************************************************************************)
CardRules ==
    { Rule(Some("Petrol"), NULL, "cashback", rate, cap, TRUE) :
        rate \in {10, 50}, cap \in {NULL, Some(300)} }
    \cup { Rule(NULL, NULL, "cashback", rate, NULL, TRUE) : rate \in {0, 10, 50} }
    \cup { Rule(Some("Petrol"), NULL, "cashback", 0, NULL, TRUE),
           Rule(Some("Petrol"), NULL, "points", 10, NULL, TRUE),
           Rule(NULL, NULL, "points", 50, NULL, TRUE),
           Rule(Some("Petrol"), NULL, "cashback", 80, NULL, FALSE),
           Rule(NULL, Some(1), "cashback", 30, NULL, TRUE),
           Rule(Some("Groceries"), NULL, "cashback", 20, NULL, TRUE) }

CardCatalog(rewards) ==
    << Product(Card(0, TRUE), rewards),
       Product(Card(150, TRUE),
               << Rule(Some("Petrol"), NULL, "cashback", 80, NULL, TRUE) >>),
       Product(Card(0, FALSE), << >>) >>

InitCard ==
    \E rewards \in SeqsUpTo(CardRules, MaxRewards), table \in ExpenseTables :
        /\ credit_cards = StoredCards(CardCatalog(rewards))
        /\ card_rewards = StoredRewards(CardCatalog(rewards))
        /\ user_cards = << >>
        /\ expenses = table
        /\ response = NoResponse
        /\ categories = CategoryRows
        /\ merchants = Merchants
        /\ inflight = NoRequests

\* simulate_card_performance(card_id) of the signed-in user
SimulateCardPerformance(user_id, card_id) ==
    LET found == card_id \in 1..Len(credit_cards) /\ credit_cards[card_id].is_active
        spending_pattern == GetUserSpendingPattern(user_id, DefaultMonths)
        card_rewards_ == CalculateCardRewards(card_id, spending_pattern)
        annual_fee == credit_cards[card_id].annual_fee
        request == [op |-> "simulate_card", user_id |-> user_id, card_id |-> card_id]
    IN  /\ response' =
              IF ~found
              THEN [request |-> request, status |-> 404,
                    detail |-> "Credit card not found"]
              ELSE IF DOMAIN spending_pattern = {}
              THEN [request |-> request, status |-> 400,
                    detail |-> "No spending data found for simulation"]
              ELSE [request |-> request, status |-> 200,
                    spending_pattern |-> spending_pattern,
                    simulation_results |->
                      [total_annual_spending |->
                           SumOver(spending_pattern, DOMAIN spending_pattern)
                               * MonthsPerYear,
                       projected_cashback |-> card_rewards_.total_cashback,
                       projected_points   |-> card_rewards_.total_points,
                       annual_fee         |-> annual_fee,
                       net_benefit        |-> card_rewards_.total_cashback
                                                  - annual_fee * RateDen,
                       category_breakdown |-> card_rewards_.category_breakdown]]
        /\ UNCHANGED <<credit_cards, card_rewards, user_cards, expenses,
                     categories, merchants, inflight>>

\* the signed-in user is user 1; user 2 only owns expenses
NextCard ==
    \E user_id \in {1}, card_id \in 1..(Len(credit_cards) + 1) :
        SimulateCardPerformance(user_id, card_id)

SpecCard == InitCard /\ [][NextCard]_vars

(***************************************************************************)
(* SpecOptimize: optimize_card_combination over catalogs of up to         *)
(* MaxCatalog of the products below.                                       *)
(***************************************************************************)
OptimizeProducts ==
    { \* Petrol 5% capped at 300 a month, 0.5% on the rest
      Product(Card(0, TRUE),
              << Rule(Some("Petrol"), NULL, "cashback", 50, Some(300), TRUE),
                 Rule(NULL, NULL, "cashback", 5, NULL, TRUE) >>),
      \* Groceries 5% capped at 500 a month, 1% on the rest
      Product(Card(0, TRUE),
              << Rule(Some("Groceries"), NULL, "cashback", 50, Some(500), TRUE),
                 Rule(NULL, NULL, "cashback", 10, NULL, TRUE) >>),
      \* one point per currency unit on everything, for a fee
      Product(Card(150, TRUE),
              << Rule(NULL, NULL, "points", 1000, NULL, TRUE) >>),
      \* Petrol 1%, nothing else
      Product(Card(0, TRUE),
              << Rule(Some("Petrol"), NULL, "cashback", 10, NULL, TRUE) >>),
      \* 5% on everything, for a fee
      Product(Card(150, TRUE),
              << Rule(NULL, NULL, "cashback", 50, NULL, TRUE) >>),
      \* a withdrawn card
      Product(Card(0, FALSE),
              << Rule(Some("Petrol"), NULL, "cashback", 80, NULL, TRUE) >>) }

\* user 1 spent nothing, on Petrol only, on Groceries only, or on both
OptimizeExpenses ==
    { OtherExpenses \o table :
        table \in { << >>,
                    << Expense(1, 1, 300, 11, 1) >>,
                    << Expense(1, 2, 120, 10, 20) >>,
                    << Expense(1, 1, 600, 11, 1), Expense(1, 2, 120, 10, 20) >> } }

InitOptimize ==
    \E catalog \in SeqsUpTo(OptimizeProducts, MaxCatalog), table \in OptimizeExpenses :
        /\ credit_cards = StoredCards(catalog)
        /\ card_rewards = StoredRewards(catalog)
        /\ user_cards = << >>
        /\ expenses = table
        /\ response = NoResponse
        /\ categories = CategoryRows
        /\ merchants = Merchants
        /\ inflight = NoRequests

\* mutant of Optimize: the best combination is saved to the user's wallet
OptimizeAndSave(user_id, max_cards) ==
    LET combinations == OptimizeCardCombination(user_id, max_cards) IN
    /\ response' =
          [request |-> [op |-> "optimize", user_id |-> user_id, max_cards |-> max_cards],
           combinations |-> combinations]
    /\ user_cards' =
          IF combinations = << >> THEN user_cards
          ELSE user_cards \o [k \in 1..Len(combinations[1].cards) |->
                                 UserCard(user_id, combinations[1].cards[k], TRUE)]
    /\ UNCHANGED <<credit_cards, card_rewards, expenses, categories, merchants, inflight>>

\* engine.optimize_card_combination(user_id, max_cards)
Optimize(user_id, max_cards) ==
    /\ response' =
          [request |-> [op |-> "optimize", user_id |-> user_id, max_cards |-> max_cards],
           combinations |-> OptimizeCardCombination(user_id, max_cards)]
    /\ UNCHANGED <<credit_cards, card_rewards, user_cards, expenses,
                     categories, merchants, inflight>>

NextOptimize ==
    \E user_id \in {1}, max_cards \in 0..MaxCards : Optimize(user_id, max_cards)

SpecOptimize == InitOptimize /\ [][NextOptimize]_vars

(***************************************************************************)
(* SpecAdvise: GET /purchase-advice over catalogs of up to MaxOwned of    *)
(* the products below.  User 2 holds every card; user 1 has a record for  *)
(* every card, active for the cards of the wallet and removed             *)
(* (is_active = False) for the others.                                     *)
(***************************************************************************)
MaxOwned == 2

AdviseProducts ==
    { \* 1% at Shell (merchant 1)
      Product(Card(0, TRUE),
              << Rule(NULL, Some(1), "cashback", 10, NULL, TRUE) >>),
      \* 5% on Petrol
      Product(Card(0, TRUE),
              << Rule(Some("Petrol"), NULL, "cashback", 50, NULL, TRUE) >>),
      \* 2% in points on everything
      Product(Card(0, TRUE),
              << Rule(NULL, NULL, "points", 20, NULL, TRUE) >>),
      \* 1% on Petrol and 3% at Shell
      Product(Card(0, TRUE),
              << Rule(Some("Petrol"), NULL, "cashback", 10, NULL, TRUE),
                 Rule(NULL, Some(1), "cashback", 30, NULL, TRUE) >>),
      \* 8% on Groceries, 0% on the rest, and a withdrawn 9% at Shell
      Product(Card(0, TRUE),
              << Rule(Some("Groceries"), NULL, "cashback", 80, NULL, TRUE),
                 Rule(NULL, NULL, "cashback", 0, NULL, TRUE),
                 Rule(NULL, Some(1), "cashback", 90, NULL, FALSE) >>),
      \* a withdrawn card
      Product(Card(0, FALSE),
              << Rule(Some("Petrol"), NULL, "cashback", 90, NULL, TRUE) >>) }

Wallet(n_cards, owned) ==
    [i \in 1..n_cards |-> UserCard(2, i, TRUE)]
        \o [i \in 1..n_cards |-> UserCard(1, i, i \in owned)]

\* purchase amounts: amount is any float of the query string
Amounts == {-100, 0, 100}

InitAdvise ==
    \E catalog \in SeqsUpTo(AdviseProducts, MaxOwned) :
        \E owned \in SUBSET (1..Len(catalog)) :
            /\ credit_cards = StoredCards(catalog)
            /\ card_rewards = StoredRewards(catalog)
            /\ user_cards = Wallet(Len(catalog), owned)
            /\ expenses = << >>
            /\ response = NoResponse
            /\ categories = CategoryRows
            /\ merchants = Merchants
            /\ inflight = NoRequests

\* get_purchase_advice(merchant_id, amount) of the signed-in user
GetPurchaseAdvice(user_id, merchant_id, amount) ==
    /\ response' =
          [request |-> [op |-> "purchase_advice", user_id |-> user_id,
                        merchant_id |-> merchant_id, amount |-> amount],
           recommendation |-> GetPurchaseRecommendation(user_id, merchant_id, amount)]
    /\ UNCHANGED <<credit_cards, card_rewards, user_cards, expenses,
                     categories, merchants, inflight>>

NextAdvise ==
    \E user_id \in UserIds, merchant_id \in 1..(Len(Merchants) + 1), amount \in Amounts :
        GetPurchaseAdvice(user_id, merchant_id, amount)

SpecAdvise == InitAdvise /\ [][NextAdvise]_vars

(***************************************************************************)
(* SpecAnalysis: GET /spending-analysis, the caller of                    *)
(* get_user_spending_pattern with a window of the caller's choice, over   *)
(* expense tables of up to MaxExpenses of the rows below.                 *)
(***************************************************************************)
MaxExpenses == 2

\* Expense dates, as seen from now: yesterday, on and just outside the edge
\* of a one-month window, two months ago, and tomorrow.
ExpenseDates ==
    { [ym |-> 11, ago |-> 1],
      [ym |-> 10, ago |-> 30],
      [ym |-> 10, ago |-> 31],
      [ym |-> 9,  ago |-> 61],
      [ym |-> 11, ago |-> -1] }

\* user 1's expenses at either merchant on each of the dates, and two of
\* user 2's
ExpenseRows ==
    { Expense(1, merchant_id, 60, d.ym, d.ago) :
        merchant_id \in MerchantIds, d \in ExpenseDates }
    \cup { Expense(1, 1, 120, 11, 1) }
    \cup { Expense(2, merchant_id, 60, 11, 1) : merchant_id \in MerchantIds }

\* months: int = Query(3)
WindowMonths == {1, 2, 3}

InitAnalysis ==
    \E table \in SeqsUpTo(ExpenseRows, MaxExpenses) :
        /\ credit_cards = << >>
        /\ card_rewards = << >>
        /\ user_cards = << >>
        /\ expenses = table
        /\ response = NoResponse
        /\ categories = CategoryRows
        /\ merchants = Merchants
        /\ inflight = NoRequests

\* the orders in which the rows of a query without ORDER BY may come back
RowOrders(keys) ==
    { order \in [1..Cardinality(keys) -> keys] :
        \A i, j \in 1..Cardinality(keys) : i # j => order[i] # order[j] }

RECURSIVE InsertByMonthlyAmount(_, _)
\* x put behind every entry whose monthly amount is at least its own
InsertByMonthlyAmount(sorted, x) ==
    IF sorted = << >> THEN <<x>>
    ELSE IF Head(sorted).monthly_amount >= x.monthly_amount
         THEN <<Head(sorted)>> \o InsertByMonthlyAmount(Tail(sorted), x)
         ELSE <<x>> \o sorted

RECURSIVE SortByMonthlyAmount(_)
\* spending_breakdown.sort(key=monthly_amount, reverse=True)
SortByMonthlyAmount(breakdown) ==
    IF breakdown = << >> THEN << >>
    ELSE InsertByMonthlyAmount(
             SortByMonthlyAmount(SubSeq(breakdown, 1, Len(breakdown) - 1)),
             breakdown[Len(breakdown)])

\* get_spending_analysis(months) of the signed-in user; order is the order
\* of the rows of the profile query.  A percentage is held in 1/1000.
GetSpendingAnalysis(user_id, months, order) ==
    LET spending_pattern == GetUserSpendingPattern(user_id, months)
        total_monthly_spending ==
            SumOver(spending_pattern, DOMAIN spending_pattern)
        spending_breakdown ==
            SortByMonthlyAmount(
                [k \in 1..Len(order) |->
                    [category       |-> order[k],
                     monthly_amount |-> spending_pattern[order[k]],
                     percentage     |->
                         IF total_monthly_spending > 0
                         THEN (spending_pattern[order[k]] * 100 * RateDen)
                                  \div total_monthly_spending
                         ELSE 0]])
        request == [op |-> "spending_analysis", user_id |-> user_id, months |-> months]
    IN  /\ order \in RowOrders(DOMAIN spending_pattern)
        /\ response' =
              IF DOMAIN spending_pattern = {}
              THEN [request |-> request,
                    message |-> "No spending data found",
                    spending_pattern |-> << >>,
                    total_monthly_spending |-> 0]
              ELSE [request |-> request,
                    analysis_period_months |-> months,
                    total_monthly_spending |-> total_monthly_spending,
                    spending_breakdown     |-> spending_breakdown,
                    top_categories         |-> TopCombinations(spending_breakdown)]
        /\ UNCHANGED <<credit_cards, card_rewards, user_cards, expenses,
                     categories, merchants, inflight>>

NextAnalysis ==
    \E user_id \in UserIds, months \in WindowMonths :
        \E order \in RowOrders(DOMAIN GetUserSpendingPattern(user_id, months)) :
            GetSpendingAnalysis(user_id, months, order)

SpecAnalysis == InitAnalysis /\ [][NextAnalysis]_vars

(***************************************************************************)
(* optimize_card_combination as the worker runs it, query by query: the   *)
(* profile, the active cards and the user's cards are each read once;     *)
(* the rules are read again for every combination that is scored.  (The   *)
(* code reads them per category and per card of the combination; one      *)
(* step per combination is a subset of its interleavings.)                *)
(***************************************************************************)
\* mutant of SearchedCards: the user's current cards are left out
SearchedCardsNotOwned(available_cards, user_card_ids) ==
    SelectSeq(available_cards, LAMBDA i : i \notin user_card_ids)

\* the cards the search combines: available_cards; user_card_ids is read
\* (lines 112-116) and never used
SearchedCards(available_cards, user_card_ids) == available_cards

\* lines 101-104: the profile, and the early return
OptimizeStart(w, user_id, max_cards) ==
    LET request == [op |-> "optimize", user_id |-> user_id, max_cards |-> max_cards]
        spending_pattern == GetUserSpendingPattern(user_id, DefaultMonths)
    IN  /\ inflight[w] = Idle
        /\ IF NoSpendingData(spending_pattern)
           THEN /\ response' = [request |-> request, combinations |-> << >>]
                /\ UNCHANGED inflight
           ELSE /\ inflight' = [inflight EXCEPT ![w] =
                                   [pc |-> "cards", request |-> request,
                                    spending_pattern |-> spending_pattern]]
                /\ UNCHANGED response
        /\ UNCHANGED <<credit_cards, card_rewards, user_cards, expenses,
                       categories, merchants>>

\* lines 107-122: available_cards, user_card_ids, and the combinations the
\* two loops will visit
OptimizeReadCards(w) ==
    /\ inflight[w].pc = "cards"
    /\ LET user_id == inflight[w].request.user_id
           user_card_ids ==
               { user_cards[k].credit_card_id :
                   k \in { j \in 1..Len(user_cards) :
                             user_cards[j].user_id = user_id /\ user_cards[j].is_active } }
           searched == SearchedCards(AvailableCards, user_card_ids)
           sizes == CombinationSizes(inflight[w].request.max_cards, Len(searched))
       IN  inflight' = [inflight EXCEPT ![w] =
                           [pc |-> "score", request |-> inflight[w].request,
                            spending_pattern |-> inflight[w].spending_pattern,
                            pending |-> AllCombinations(searched, 1, sizes),
                            best_combinations |-> << >>]]
    /\ UNCHANGED <<credit_cards, card_rewards, user_cards, expenses, response,
                   categories, merchants>>

\* lines 123-142: one pass of the inner loop
OptimizeScore(w) ==
    /\ inflight[w].pc = "score"
    /\ inflight[w].pending # << >>
    /\ inflight' = [inflight EXCEPT ![w] =
                       [inflight[w] EXCEPT
                           !.pending = Tail(inflight[w].pending),
                           !.best_combinations =
                               Append(inflight[w].best_combinations,
                                      CardCombo(Head(inflight[w].pending),
                                                inflight[w].spending_pattern))]]
    /\ UNCHANGED <<credit_cards, card_rewards, user_cards, expenses, response,
                   categories, merchants>>

\* lines 145-146: sort, cut, return
OptimizeReturn(w) ==
    /\ inflight[w].pc = "score"
    /\ inflight[w].pending = << >>
    /\ response' =
          [request |-> inflight[w].request,
           combinations |->
               TopCombinations(SortByNetBenefit(inflight[w].best_combinations))]
    /\ inflight' = [inflight EXCEPT ![w] = Idle]
    /\ UNCHANGED <<credit_cards, card_rewards, user_cards, expenses,
                   categories, merchants>>

(***************************************************************************)
(* SpecWallet: POST and DELETE /me/cards (users.py) next to the purchase  *)
(* advice and the optimizer.  A request to add a card is served in two    *)
(* steps, the queries and the insert, so that two workers may be between  *)
(* them at once; the optimizer runs query by query; the other handlers   *)
(* are one step each.                                                      *)
(***************************************************************************)
\* the most rows the user_cards table grows to
MaxUserCards == 3

\* the user's active records for the card, as positions in user_cards
ActiveUserCards(user_id, card_id) ==
    { k \in 1..Len(user_cards) :
        /\ user_cards[k].user_id = user_id
        /\ user_cards[k].credit_card_id = card_id
        /\ user_cards[k].is_active }

\* the adds that are past their check and have not inserted yet
PendingInserts == { w \in Workers : inflight[w].pc = "insert" }

\* add_user_card up to `if existing_user_card`: the card must exist (it
\* need not be active) and the user must have no active record for it
AddUserCardCheck(w, user_id, card_id) ==
    LET request == [op |-> "add_user_card", user_id |-> user_id, card_id |-> card_id]
    IN  /\ inflight[w] = Idle
        /\ Len(user_cards) + Cardinality(PendingInserts) < MaxUserCards
        /\ IF card_id \notin 1..Len(credit_cards)
           THEN /\ response' = [request |-> request, status |-> 404,
                                detail |-> "Credit card not found"]
                /\ UNCHANGED inflight
           ELSE IF ActiveUserCards(user_id, card_id) # {}
           THEN /\ response' = [request |-> request, status |-> 400,
                                detail |-> "Card already added to your wallet"]
                /\ UNCHANGED inflight
           ELSE /\ inflight' = [inflight EXCEPT ![w] =
                                   [pc |-> "insert", request |-> request]]
                /\ UNCHANGED response
        /\ UNCHANGED <<credit_cards, card_rewards, user_cards, expenses,
                       categories, merchants>>

\* add_user_card from UserCard(...) on: db.add, db.commit, return
AddUserCardInsert(w) ==
    /\ inflight[w].pc = "insert"
    /\ LET request == inflight[w].request
           user_card == UserCard(request.user_id, request.card_id, TRUE)
       IN  /\ user_cards' = Append(user_cards, user_card)
           /\ response' = [request |-> request, status |-> 200,
                           user_card |-> user_card]
    /\ inflight' = [inflight EXCEPT ![w] = Idle]
    /\ UNCHANGED <<credit_cards, card_rewards, expenses, categories, merchants>>

\* mutant of Deactivate: the record is deleted
DeleteRecord(table, k) ==
    SubSeq(table, 1, k - 1) \o SubSeq(table, k + 1, Len(table))

\* user_card.is_active = False
Deactivate(table, k) == [table EXCEPT ![k].is_active = FALSE]

\* remove_user_card; .first() of a query without ORDER BY is any of the
\* matching records
RemoveUserCard(user_id, card_id) ==
    LET request == [op |-> "remove_user_card", user_id |-> user_id, card_id |-> card_id]
    IN  /\ IF ActiveUserCards(user_id, card_id) = {}
           THEN /\ response' = [request |-> request, status |-> 404,
                                detail |-> "Card not found in your wallet"]
                /\ UNCHANGED user_cards
           ELSE /\ \E k \in ActiveUserCards(user_id, card_id) :
                      user_cards' = Deactivate(user_cards, k)
                /\ response' = [request |-> request, status |-> 200,
                                message |-> "Card removed from wallet successfully"]
        /\ UNCHANGED <<credit_cards, card_rewards, expenses,
                       categories, merchants, inflight>>

\* card 1 is the card of the purchase-advice example, Petrol 5% capped at
\* 300 a month; card 2 has been withdrawn
WalletCatalog ==
    << Product(Card(0, TRUE),
               << Rule(Some("Petrol"), NULL, "cashback", 50, Some(300), TRUE) >>),
       Product(Card(0, FALSE),
               << Rule(Some("Petrol"), NULL, "cashback", 90, NULL, TRUE) >>) >>

\* user 2 holds card 1; user 1 holds nothing yet and spent 300 on Petrol
InitWallet ==
    /\ credit_cards = StoredCards(WalletCatalog)
    /\ card_rewards = StoredRewards(WalletCatalog)
    /\ user_cards = << UserCard(2, 1, TRUE) >>
    /\ expenses = << Expense(1, 1, 300, 11, 1) >>
    /\ response = NoResponse
    /\ categories = CategoryRows
    /\ merchants = Merchants
    /\ inflight = NoRequests

\* user 1 is signed in on both workers; the optimizer runs on worker 2
NextWallet ==
    \/ \E w \in Workers, card_id \in 1..(Len(credit_cards) + 1) :
          AddUserCardCheck(w, 1, card_id)
    \/ \E w \in Workers : AddUserCardInsert(w)
    \/ \E card_id \in 1..(Len(credit_cards) + 1) : RemoveUserCard(1, card_id)
    \/ GetPurchaseAdvice(1, 1, 100)
    \/ OptimizeStart(2, 1, 1)
    \/ OptimizeReadCards(2)
    \/ OptimizeScore(2)
    \/ OptimizeReturn(2)

SpecWallet == InitWallet /\ [][NextWallet]_vars

(***************************************************************************)
(* SpecSnapshot: optimize_card_combination while another session commits  *)
(* a change of a reward rule.  The source has no handler that changes a   *)
(* rule and does not include app/db/database.py; the writer and what a    *)
(* query sees are taken from the specification: no transaction around     *)
(* the request, so every query reads what is committed when it runs.      *)
(***************************************************************************)
\* the largest max_cards requested while rules change
SnapshotMaxCards == 2

\* two free cards, each paying in one category
SnapshotCatalog ==
    << Product(Card(0, TRUE),
               << Rule(Some("Petrol"), NULL, "cashback", 50, NULL, TRUE) >>),
       Product(Card(0, TRUE),
               << Rule(Some("Groceries"), NULL, "cashback", 20, NULL, TRUE) >>) >>

\* what optimize returns from the store as it is, per max_cards
OptimizeNow(user_id) ==
    [max_cards \in 1..SnapshotMaxCards |-> OptimizeCardCombination(user_id, max_cards)]

\* another session deactivates rule k and commits, once; `replaced` keeps
\* what optimize returned from the store the commit replaced
WriteRule(w, k) ==
    /\ inflight[w] = Idle
    /\ card_rewards[k].is_active
    /\ card_rewards' = Deactivate(card_rewards, k)
    /\ inflight' = [inflight EXCEPT ![w] =
                       [pc |-> "committed",
                        request |-> [op |-> "deactivate_rule", rule |-> k],
                        replaced |-> OptimizeNow(1)]]
    /\ UNCHANGED <<credit_cards, user_cards, expenses, response,
                   categories, merchants>>

\* user 1 spent on Petrol and on Groceries
InitSnapshot ==
    /\ credit_cards = StoredCards(SnapshotCatalog)
    /\ card_rewards = StoredRewards(SnapshotCatalog)
    /\ user_cards = << >>
    /\ expenses = << Expense(1, 1, 300, 11, 1), Expense(1, 2, 300, 11, 1) >>
    /\ response = NoResponse
    /\ categories = CategoryRows
    /\ merchants = Merchants
    /\ inflight = NoRequests

NextSnapshot ==
    \/ \E w \in Workers, max_cards \in 1..SnapshotMaxCards :
          OptimizeStart(w, 1, max_cards)
    \/ \E w \in Workers : OptimizeReadCards(w)
    \/ \E w \in Workers : OptimizeScore(w)
    \/ \E w \in Workers : OptimizeReturn(w)
    \/ \E w \in Workers, k \in 1..Len(card_rewards) : WriteRule(w, k)

SpecSnapshot == InitSnapshot /\ [][NextSnapshot]_vars

(***************************************************************************)
(* SpecExpenses: the expense handlers of expenses.py.  The rows carry     *)
(* their id here, because rows are deleted; a new row takes any id that   *)
(* no row of the table has.                                                *)
(***************************************************************************)
\* the most rows the expenses table grows to
MaxExpenseRows == 2

\* the ids of the rows, deleted ones included
ExpenseIds == 1..(MaxExpenseRows + 1)

StoredExpense(id, user_id, merchant_id, amount) ==
    [id           |-> id,
     user_id      |-> user_id,
     merchant_id  |-> merchant_id,
     amount       |-> amount,
     expense_date |-> [ym |-> 11, ago |-> 1]]

\* the fields a PUT sets (exclude_unset): amount, or amount and merchant_id
ExpenseUpdates ==
    { [amount |-> 50], [amount |-> 50, merchant_id |-> 2] }

\* mutant of FindExpense: the row is looked up by its id alone
FindExpenseOfAnyUser(expense_id, user_id) ==
    { k \in 1..Len(expenses) : expenses[k].id = expense_id }

\* filter(Expense.id == expense_id, Expense.user_id == current_user.id),
\* as positions in expenses
FindExpense(expense_id, user_id) ==
    { k \in 1..Len(expenses) :
        expenses[k].id = expense_id /\ expenses[k].user_id = user_id }

ExpenseNotFound(request) ==
    [request |-> request, status |-> 404, detail |-> "Expense not found"]

\* create_expense
CreateExpense(user_id, merchant_id, amount) ==
    LET request == [op |-> "create_expense", user_id |-> user_id,
                    merchant_id |-> merchant_id, amount |-> amount]
    IN  /\ Len(expenses) < MaxExpenseRows
        /\ IF merchant_id \notin 1..Len(merchants)
           THEN /\ response' = [request |-> request, status |-> 404,
                                detail |-> "Merchant not found"]
                /\ UNCHANGED expenses
           ELSE \E id \in ExpenseIds :
                   /\ \A k \in 1..Len(expenses) : expenses[k].id # id
                   /\ LET db_expense == StoredExpense(id, user_id, merchant_id, amount)
                      IN  /\ expenses' = Append(expenses, db_expense)
                          /\ response' = [request |-> request, status |-> 200,
                                          expense |-> db_expense]
        /\ UNCHANGED <<credit_cards, card_rewards, user_cards,
                       categories, merchants, inflight>>

\* get_expense
GetExpense(user_id, expense_id) ==
    LET request == [op |-> "get_expense", user_id |-> user_id,
                    expense_id |-> expense_id]
        found == FindExpense(expense_id, user_id)
    IN  /\ response' =
              IF found = {} THEN ExpenseNotFound(request)
              ELSE [request |-> request, status |-> 200,
                    expense |-> expenses[CHOOSE k \in found : TRUE]]
        /\ UNCHANGED <<credit_cards, card_rewards, user_cards, expenses,
                       categories, merchants, inflight>>

\* update_expense: setattr for every field of update_data
UpdateExpense(user_id, expense_id, update_data) ==
    LET request == [op |-> "update_expense", user_id |-> user_id,
                    expense_id |-> expense_id, update_data |-> update_data]
        found == FindExpense(expense_id, user_id)
    IN  /\ IF found = {}
           THEN /\ response' = ExpenseNotFound(request)
                /\ UNCHANGED expenses
           ELSE LET k == CHOOSE j \in found : TRUE
                    expense == [field \in DOMAIN expenses[k] |->
                                   IF field \in DOMAIN update_data
                                   THEN update_data[field]
                                   ELSE expenses[k][field]]
                IN  /\ expenses' = [expenses EXCEPT ![k] = expense]
                    /\ response' = [request |-> request, status |-> 200,
                                    expense |-> expense]
        /\ UNCHANGED <<credit_cards, card_rewards, user_cards,
                       categories, merchants, inflight>>

\* delete_expense
DeleteExpense(user_id, expense_id) ==
    LET request == [op |-> "delete_expense", user_id |-> user_id,
                    expense_id |-> expense_id]
        found == FindExpense(expense_id, user_id)
    IN  /\ IF found = {}
           THEN /\ response' = ExpenseNotFound(request)
                /\ UNCHANGED expenses
           ELSE /\ expenses' = DeleteRecord(expenses, CHOOSE k \in found : TRUE)
                /\ response' = [request |-> request, status |-> 200,
                                message |-> "Expense deleted successfully"]
        /\ UNCHANGED <<credit_cards, card_rewards, user_cards,
                       categories, merchants, inflight>>

\* each of the two users has one expense
InitExpenses ==
    /\ credit_cards = << >>
    /\ card_rewards = << >>
    /\ user_cards = << >>
    /\ expenses = << StoredExpense(1, 1, 1, 100), StoredExpense(2, 2, 1, 100) >>
    /\ response = NoResponse
    /\ categories = CategoryRows
    /\ merchants = Merchants
    /\ inflight = NoRequests

NextExpenses ==
    \/ \E user_id \in UserIds, merchant_id \in {1, Len(merchants) + 1} :
          CreateExpense(user_id, merchant_id, 100)
    \/ \E user_id \in UserIds, expense_id \in ExpenseIds :
          GetExpense(user_id, expense_id)
    \/ \E user_id \in UserIds, expense_id \in ExpenseIds,
          update_data \in ExpenseUpdates :
          UpdateExpense(user_id, expense_id, update_data)
    \/ \E user_id \in UserIds, expense_id \in ExpenseIds :
          DeleteExpense(user_id, expense_id)

SpecExpenses == InitExpenses /\ [][NextExpenses]_vars

(***************************************************************************)
(* SpecSeed: the four seeding operations on a store that starts empty,    *)
(* with create_expense and simulate-card to use what they stored.  The    *)
(* seed data is cut down to the categories and merchants of this model    *)
(* and to the first two cards of cards_data.                               *)
(***************************************************************************)
\* categories_data of init_data.py: the last one is "General"
SeedCategoriesData == CategoryRows \o << "General" >>

\* cards_data of init_data.py: Maybank 2 Cards and CIMB Cash Rebate
\* Platinum; every reward names a category, "General" included
SeedCardsData ==
    << Product(Card(0, TRUE),
               << Rule(Some("Groceries"), NULL, "cashback", 20, Some(300), TRUE),
                  Rule(Some("Petrol"), NULL, "cashback", 20, Some(300), TRUE),
                  Rule(Some("General"), NULL, "cashback", 5, NULL, TRUE) >>),
       Product(Card(0, TRUE),
               << Rule(Some("Petrol"), NULL, "cashback", 80, Some(500), TRUE),
                  Rule(Some("General"), NULL, "cashback", 2, NULL, TRUE) >>) >>

\* malaysian_cards of credit_cards.py: the same cards, without rewards
EndpointCardsData ==
    << Product(Card(0, TRUE), << >>), Product(Card(0, TRUE), << >>) >>

SeedResponse(op, outcome) == [request |-> [op |-> op], outcome |-> outcome]

\* init_data.initialize_malaysian_credit_cards_and_rewards; db.flush()
\* of a Category whose name is taken raises IntegrityError and nothing
\* is committed
InitializeCardsAndRewards ==
    LET op == "initialize_malaysian_credit_cards_and_rewards"
    IN  /\ IF Len(credit_cards) > 0
           THEN /\ response' = SeedResponse(op, "no-op")
                /\ UNCHANGED <<categories, credit_cards, card_rewards>>
           ELSE IF \E k \in 1..Len(SeedCategoriesData) :
                      \E j \in 1..Len(categories) :
                          categories[j] = SeedCategoriesData[k]
           THEN /\ response' = SeedResponse(op, "IntegrityError")
                /\ UNCHANGED <<categories, credit_cards, card_rewards>>
           ELSE /\ categories' = categories \o SeedCategoriesData
                /\ credit_cards' = StoredCards(SeedCardsData)
                /\ card_rewards' = StoredRewards(SeedCardsData)
                /\ response' = SeedResponse(op, "completed")
        /\ UNCHANGED <<user_cards, expenses, merchants, inflight>>

\* init_data.initialize_malaysian_merchants: merchants of the categories
\* that exist
InitializeMerchants ==
    LET op == "init_data.initialize_malaysian_merchants"
    IN  /\ IF Len(merchants) > 0
           THEN /\ response' = SeedResponse(op, "no-op")
                /\ UNCHANGED merchants
           ELSE /\ merchants' =
                      SelectSeq(Merchants,
                                LAMBDA m : \E j \in 1..Len(categories) :
                                              categories[j] = m.category)
                /\ response' = SeedResponse(op, "completed")
        /\ UNCHANGED <<credit_cards, card_rewards, user_cards, expenses,
                       categories, inflight>>

\* POST /initialize-malaysian-merchants: categories and their merchants
InitializeMerchantsEndpoint ==
    LET op == "/initialize-malaysian-merchants"
    IN  /\ IF Len(categories) > 0
           THEN /\ response' = SeedResponse(op, "no-op")
                /\ UNCHANGED <<categories, merchants>>
           ELSE /\ categories' = CategoryRows
                /\ merchants' = merchants \o Merchants
                /\ response' = SeedResponse(op, "completed")
        /\ UNCHANGED <<credit_cards, card_rewards, user_cards, expenses, inflight>>

\* POST /initialize-malaysian-cards: cards only
InitializeCardsEndpoint ==
    LET op == "/initialize-malaysian-cards"
    IN  /\ IF Len(credit_cards) > 0
           THEN /\ response' = SeedResponse(op, "no-op")
                /\ UNCHANGED credit_cards
           ELSE /\ credit_cards' = StoredCards(EndpointCardsData)
                /\ response' = SeedResponse(op, "completed")
        /\ UNCHANGED <<card_rewards, user_cards, expenses, categories,
                       merchants, inflight>>

InitSeed ==
    /\ credit_cards = << >>
    /\ card_rewards = << >>
    /\ user_cards = << >>
    /\ expenses = << >>
    /\ response = NoResponse
    /\ categories = << >>
    /\ merchants = << >>
    /\ inflight = NoRequests

NextSeed ==
    \/ InitializeCardsAndRewards
    \/ InitializeMerchants
    \/ InitializeMerchantsEndpoint
    \/ InitializeCardsEndpoint
    \/ \E merchant_id \in 1..(Len(Merchants) + 1) : CreateExpense(1, merchant_id, 100)
    \/ \E card_id \in 1..(Len(credit_cards) + 1) : SimulateCardPerformance(1, card_id)

SpecSeed == InitSeed /\ [][NextSeed]_vars

(***************************************************************************)
(* SpecEngine: the four request handlers over stores in which all the     *)
(* tables are filled: catalogs of up to MaxStore of the products below,   *)
(* a wallet in which user 1 holds none or all of the cards, and one of    *)
(* two expense tables.                                                     *)
(***************************************************************************)
MaxStore == 2

EngineProducts ==
    { \* Petrol 5% with a monthly cap of 0
      Product(Card(0, TRUE),
              << Rule(Some("Petrol"), NULL, "cashback", 50, Some(0), TRUE) >>),
      \* Petrol 5% with a monthly cap of 300
      Product(Card(0, TRUE),
              << Rule(Some("Petrol"), NULL, "cashback", 50, Some(300), TRUE) >>),
      \* 2% in points at Shell (merchant 1), for a fee
      Product(Card(150, TRUE),
              << Rule(NULL, Some(1), "points", 20, NULL, TRUE) >>),
      \* a withdrawn card
      Product(Card(0, FALSE),
              << Rule(NULL, NULL, "cashback", 10, NULL, TRUE) >>) }

\* user 1 spent nothing, or 600 on Petrol and 120 on Groceries
EngineExpenses ==
    { OtherExpenses \o table :
        table \in { << >>,
                    << Expense(1, 1, 600, 11, 1), Expense(1, 2, 120, 10, 20) >> } }

InitEngine ==
    \E catalog \in SeqsUpTo(EngineProducts, MaxStore), table \in EngineExpenses :
        \E owned \in { {}, 1..Len(catalog) } :
            /\ credit_cards = StoredCards(catalog)
            /\ card_rewards = StoredRewards(catalog)
            /\ user_cards = Wallet(Len(catalog), owned)
            /\ expenses = table
            /\ response = NoResponse
            /\ categories = CategoryRows
            /\ merchants = Merchants
            /\ inflight = NoRequests

(***************************************************************************)
(* Spec: the request handlers over every store above.                     *)
(***************************************************************************)
\* the four handlers that call the engine
NextEngine == NextCard \/ NextOptimize \/ NextAdvise \/ NextAnalysis

SpecEngine == InitEngine /\ [][NextEngine]_vars

Init ==
    \/ InitCard \/ InitOptimize \/ InitAdvise \/ InitAnalysis \/ InitEngine
    \/ InitWallet \/ InitSnapshot \/ InitExpenses \/ InitSeed

Next ==
    \/ NextEngine
    \/ NextWallet \/ NextSnapshot \/ NextExpenses \/ NextSeed

Spec == Init /\ [][Next]_vars

(***************************************************************************)
(* Claims about calculate_card_rewards, checked under SpecCard.           *)
(***************************************************************************)
\* the last request was a simulation that returned rewards
Simulated == response.request.op = "simulate_card" /\ response.status = 200

\* the active rules of the simulated card scoped to category c
SimulatedCategoryRules(c) ==
    SelectSeq(ActiveRewards(response.request.card_id),
              LAMBDA r : IsCategoryReward(r, c))

\* the active rules of the simulated card with no category and no merchant
SimulatedGeneralRules ==
    SelectSeq(ActiveRewards(response.request.card_id),
              LAMBDA r : r.category = NULL /\ r.merchant_id = NULL)

Highest(S) == CHOOSE r \in S : \A q \in S : q <= r

\* C1: when the one rule of the card matching a profile category has a
\* monthly cap m, the reward credited for the category is
\* min(a*12, m*12) * rate, a being the category's monthly amount.
C1_CapLimitsCategoryReward ==
    Simulated =>
        \A c \in DOMAIN response.spending_pattern :
            LET rules == SimulatedCategoryRules(c)
                a == response.spending_pattern[c]
            IN  (Len(rules) = 1 /\ rules[1].maximum_spend # NULL) =>
                    response.simulation_results.category_breakdown[c].amount
                        = Min(a * 12, rules[1].maximum_spend[1] * 12)
                              * rules[1].reward_rate

\* C2: when the card has one active rule for a profile category (rate r1)
\* and an active general rule (rate r2), the rate applied to the category
\* is r1, whatever r1 and r2 are.
C2_CategoryRuleBeatsGeneral ==
    Simulated =>
        \A c \in DOMAIN response.spending_pattern :
            LET rules == SimulatedCategoryRules(c)
            IN  (Len(rules) = 1 /\ SimulatedGeneralRules # << >>) =>
                    response.simulation_results.category_breakdown[c].rate
                        = rules[1].reward_rate

\* every active rule of the simulated card is a general, uncapped cashback
\* rule, and there is at least one
OnlyGeneralCashback ==
    LET rewards == ActiveRewards(response.request.card_id)
    IN  /\ rewards # << >>
        /\ \A k \in 1..Len(rewards) :
              /\ rewards[k].category = NULL
              /\ rewards[k].merchant_id = NULL
              /\ rewards[k].maximum_spend = NULL
              /\ rewards[k].reward_type = "cashback"

\* C10: for a card whose active rules are all general uncapped cashback
\* rules, the total cashback is the sum over the profile's categories of
\* monthly amount * 12 * the card's highest general rate.
C10_GeneralOnlyCashback ==
    (Simulated /\ OnlyGeneralCashback) =>
        LET rewards == ActiveRewards(response.request.card_id)
            rate == Highest({ rewards[k].reward_rate : k \in 1..Len(rewards) })
            P == response.spending_pattern
        IN  /\ response.simulation_results.projected_cashback
                  = SumOver([c \in DOMAIN P |-> P[c] * 12 * rate], DOMAIN P)
            /\ response.simulation_results.projected_points = 0

\* a card with two general cashback rules, the lower rate first, simulated
\* on a profile of two categories
C10_Witness ==
    /\ Simulated
    /\ OnlyGeneralCashback
    /\ Cardinality(DOMAIN response.spending_pattern) = 2
    /\ LET rewards == ActiveRewards(response.request.card_id)
       IN  Len(rewards) = 2 /\ rewards[1].reward_rate < rewards[2].reward_rate
    /\ response.simulation_results.projected_cashback > 0

(***************************************************************************)
(* Claims about optimize_card_combination, checked under SpecOptimize.    *)
(***************************************************************************)
Optimized == response.request.op = "optimize"

Range(seq) == { seq[k] : k \in 1..Len(seq) }

\* the profile the last optimize request worked on
OptimizedProfile == GetUserSpendingPattern(response.request.user_id, 3)

\* the ids of the active cards of the catalog
ActiveCardIds == { i \in 1..Len(credit_cards) : credit_cards[i].is_active }

\* C4: every returned combination holds between 1 and maxCards cards, and
\* no card twice.
C4_DistinctCardsWithinMax ==
    Optimized =>
        \A k \in 1..Len(response.combinations) :
            LET cards == response.combinations[k].cards
            IN  /\ Len(cards) >= 1
                /\ Len(cards) <= response.request.max_cards
                /\ \A i, j \in 1..Len(cards) : i # j => cards[i] # cards[j]

\* a request with maxCards = 2 over three active cards returned a pair
C4_Witness ==
    /\ Optimized
    /\ response.request.max_cards = 2
    /\ Cardinality(ActiveCardIds) = 3
    /\ \E k \in 1..Len(response.combinations) :
          Len(response.combinations[k].cards) = 2

\* C5: the returned list is sorted non-increasing by net benefit.
C5_SortedByNetBenefit ==
    Optimized =>
        \A k \in 1..(Len(response.combinations) - 1) :
            response.combinations[k].net_benefit
                >= response.combinations[k + 1].net_benefit

\* a returned list that is not in the order of enumeration: it starts with
\* a combination of several cards and its net benefits differ
C5_Witness ==
    /\ Optimized
    /\ Len(response.combinations) >= 3
    /\ Len(response.combinations[1].cards) >= 2
    /\ response.combinations[1].net_benefit
          > response.combinations[Len(response.combinations)].net_benefit

RECURSIVE Ascending(_)
\* the members of a finite set of numbers, smallest first
Ascending(S) ==
    IF S = {} THEN << >>
    ELSE LET least == CHOOSE x \in S : \A y \in S : x <= y
         IN  <<least>> \o Ascending(S \ {least})

\* the candidates of the exhaustive search: the non-empty sets of active
\* cards of at most min(maxCards, catalogSize) cards
Candidates ==
    { S \in SUBSET ActiveCardIds :
        /\ S # {}
        /\ Cardinality(S) <= Min(response.request.max_cards,
                                 Cardinality(ActiveCardIds)) }

\* the net benefit of a candidate, its cards taken in catalog order
CandidateNetBenefit(S) == CardCombo(Ascending(S), OptimizedProfile).net_benefit

ReturnedSets ==
    { Range(response.combinations[k].cards) : k \in 1..Len(response.combinations) }

\* C6: at most 5 combinations are returned; each is a candidate, none is
\* returned twice, all candidates are returned when there are at most 5,
\* and no candidate left out has a strictly higher net benefit than a
\* returned one.
C6_TopFiveOfExhaustiveSearch ==
    Optimized =>
        /\ Len(response.combinations) <= 5
        /\ ReturnedSets \subseteq Candidates
        /\ Cardinality(ReturnedSets) = Len(response.combinations)
        /\ OptimizedProfile # << >> =>
              Len(response.combinations) = Min(5, Cardinality(Candidates))
        /\ \A S \in Candidates \ ReturnedSets :
              \A k \in 1..Len(response.combinations) :
                  CandidateNetBenefit(S) <= response.combinations[k].net_benefit

\* seven candidates, five returned, and a candidate left out is strictly
\* worse than the last one returned
C6_Witness ==
    /\ Optimized
    /\ Cardinality(Candidates) = 7
    /\ Len(response.combinations) = 5
    /\ \E S \in Candidates \ ReturnedSets :
          CandidateNetBenefit(S) < response.combinations[5].net_benefit

\* what one card alone pays for a category: by its category rules if it
\* has any, else by its general rules, else nothing
OwnReward(card_id, category, monthly_amount) ==
    LET rewards == ActiveRewards(card_id)
        Pays(r) == IF r.maximum_spend # NULL
                   THEN Min(monthly_amount * 12, r.maximum_spend[1] * 12) * r.reward_rate
                   ELSE monthly_amount * 12 * r.reward_rate
        specific == { k \in 1..Len(rewards) : IsCategoryReward(rewards[k], category) }
        general == { k \in 1..Len(rewards) :
                        rewards[k].category = NULL /\ rewards[k].merchant_id = NULL }
        used == IF specific # {} THEN specific ELSE general
    IN  IF used = {} THEN 0 ELSE Highest({ Pays(rewards[k]) : k \in used })

\* C7: the reward a combination is credited for a category is the highest
\* of what its cards pay for the category on their own; summed over the
\* categories this is the combination's cashback plus points.
C7_CategoryGoesToBestCard ==
    Optimized =>
        \A k \in 1..Len(response.combinations) :
            LET combo == response.combinations[k]
                P == OptimizedProfile
            IN  combo.projected_cashback + combo.projected_points
                    = SumOver([c \in DOMAIN P |->
                                  Highest({ OwnReward(i, c, P[c]) : i \in Range(combo.cards) })],
                              DOMAIN P)

\* C8: net_benefit = projected_cashback + projected_points * 0.01 - the sum
\* of the annual fees of the combination's cards, and total_annual_fee is
\* that sum.  (Rewards are held in 1/1000, the net benefit in 1/100000.)
C8_NetBenefitFormula ==
    Optimized =>
        \A k \in 1..Len(response.combinations) :
            LET combo == response.combinations[k]
                fees == SumOver([i \in Range(combo.cards) |-> credit_cards[i].annual_fee],
                                Range(combo.cards))
            IN  /\ combo.total_annual_fee = fees
                /\ combo.net_benefit
                      = combo.projected_cashback * 100 + combo.projected_points
                            - fees * 100000

\* a returned combination of several cards with cashback, points and fees
C8_Witness ==
    /\ Optimized
    /\ \E k \in 1..Len(response.combinations) :
          /\ Len(response.combinations[k].cards) >= 2
          /\ response.combinations[k].projected_cashback > 0
          /\ response.combinations[k].projected_points > 0
          /\ response.combinations[k].total_annual_fee > 0

\* C9: optimize returns the empty list when the profile is empty or no
\* card of the catalog is active.
C9_EmptyProfileOrCatalog ==
    (Optimized /\ (OptimizedProfile = << >> \/ ActiveCardIds = {})) =>
        response.combinations = << >>

\* an empty profile, with active cards to combine
C9_Witness ==
    /\ Optimized
    /\ OptimizedProfile = << >>
    /\ ActiveCardIds # {}
    /\ response.request.max_cards >= 1
    /\ response.combinations = << >>

(***************************************************************************)
(* Claims about get_purchase_recommendation, checked under SpecAdvise.    *)
(***************************************************************************)
\* the last request was a purchase advice for an existing merchant
Advised ==
    /\ response.request.op = "purchase_advice"
    /\ response.request.merchant_id \in MerchantIds

Recommended == "recommended_card" \in DOMAIN response.recommendation

\* the cards the requesting user holds: an active record for an active card
HeldCards ==
    { i \in 1..Len(credit_cards) :
        /\ credit_cards[i].is_active
        /\ \E k \in 1..Len(user_cards) :
              /\ user_cards[k].user_id = response.request.user_id
              /\ user_cards[k].credit_card_id = i
              /\ user_cards[k].is_active }

\* the active rules of card i scoped to the purchase's merchant
MerchantRules(i) ==
    { k \in 1..Len(card_rewards) :
        /\ card_rewards[k].credit_card_id = i
        /\ card_rewards[k].is_active
        /\ card_rewards[k].merchant_id = Some(response.request.merchant_id) }

\* the active rules of card i that apply to the purchase, whatever their
\* scope: the merchant's category, the merchant, or no scope at all
ApplicableRules(i) ==
    { k \in 1..Len(card_rewards) :
        /\ card_rewards[k].credit_card_id = i
        /\ card_rewards[k].is_active
        /\ \/ card_rewards[k].category
                  = Some(Merchants[response.request.merchant_id].category)
           \/ card_rewards[k].merchant_id = Some(response.request.merchant_id)
           \/ card_rewards[k].category = NULL /\ card_rewards[k].merchant_id = NULL }

Pays(k) == response.request.amount * card_rewards[k].reward_rate

\* a held card has a merchant rule that pays something for the purchase
MerchantRuleHeld == \E i \in HeldCards : \E k \in MerchantRules(i) : Pays(k) > 0

AdviceAsked == response.request.op = "purchase_advice"

NoActiveCards == [message |-> "No active cards found for user"]

MerchantNotFound == [error |-> "Merchant not found"]

NoSuitableCard == [message |-> "No suitable card found for this purchase"]

\* no rule of a held card that applies to the purchase pays more than 0
NoRulePays == \A i \in HeldCards : \A k \in ApplicableRules(i) : Pays(k) <= 0

\* C11: when the user holds cards and no rule of a held card yields a
\* strictly positive reward for the purchase (none applies, or every
\* applicable rate is zero), the advice is 'no suitable card' and no card
\* is recommended.
C11_NoSuitableCardWithoutReward ==
    (Advised /\ NoRulePays) =>
        /\ ~Recommended
        /\ HeldCards # {} => response.recommendation = NoSuitableCard

\* a purchase of 100 for which a held card has an applicable rule of rate 0
\* and no held card has one that pays
C11_Witness ==
    /\ Advised
    /\ response.request.amount = 100
    /\ \E i \in HeldCards : \E k \in ApplicableRules(i) :
          card_rewards[k].reward_rate = 0
    /\ NoRulePays
    /\ response.recommendation = NoSuitableCard

\* C12: when the user has no active record for an active card, the advice
\* is 'no active cards' and no card is recommended.
C12_NoActiveCardsReported ==
    (AdviceAsked /\ HeldCards = {}) => response.recommendation = NoActiveCards

\* the user's only active record is for a withdrawn card whose rule would
\* pay for the purchase
C12_Witness ==
    /\ Advised
    /\ response.request.amount = 100
    /\ HeldCards = {}
    /\ \E k \in 1..Len(user_cards) :
          /\ user_cards[k].user_id = response.request.user_id
          /\ user_cards[k].is_active
          /\ ~credit_cards[user_cards[k].credit_card_id].is_active
          /\ ApplicableRules(user_cards[k].credit_card_id) # {}
    /\ response.recommendation = NoActiveCards

\* C13: a purchase advice for a merchant id that does not exist returns
\* 'merchant not found', whatever cards the user holds and whatever the
\* amount.
C13_MerchantNotFoundForEveryUser ==
    (AdviceAsked /\ response.request.merchant_id \notin MerchantIds) =>
        response.recommendation = MerchantNotFound

\* C14: a purchase advice for an amount <= 0 is an input error: neither a
\* recommendation nor one of 'no suitable card', 'no active cards' and
\* 'merchant not found'.
C14_NonPositiveAmountRejected ==
    (AdviceAsked /\ response.request.amount <= 0) =>
        /\ ~Recommended
        /\ response.recommendation # NoSuitableCard
        /\ response.recommendation # NoActiveCards
        /\ response.recommendation # MerchantNotFound

(***************************************************************************)
(* More claims about optimize_card_combination, under SpecOptimize.       *)
(***************************************************************************)
\* C15: optimize with maxCards < 1 is an input error, distinguishable from
\* the empty list of an empty profile or an empty catalog.
C15_MaxCardsBelowOneRejected ==
    (Optimized /\ response.request.max_cards < 1) =>
        response.combinations # << >>

(***************************************************************************)
(* Claims about get_user_spending_pattern, checked under SpecAnalysis.    *)
(***************************************************************************)
AnalysisAsked == response.request.op = "spending_analysis"

\* the profile the handler was given, read back from its response
AnalysedProfile ==
    IF "spending_breakdown" \in DOMAIN response
    THEN response.spending_breakdown
    ELSE << >>

AnalysedCategories ==
    { AnalysedProfile[k].category : k \in 1..Len(AnalysedProfile) }

\* the requesting user's expenses dated inside [now - months*30 days, now]
ExpensesInWindow ==
    { i \in 1..Len(expenses) :
        /\ expenses[i].user_id = response.request.user_id
        /\ expenses[i].expense_date.ago >= 0
        /\ expenses[i].expense_date.ago <= response.request.months * 30 }

ExpensesInWindowOf(c) ==
    { i \in ExpensesInWindow : Merchants[expenses[i].merchant_id].category = c }

\* C16: the profile value of a category is the sum of the amounts of the
\* user's in-window transactions of the category divided by windowMonths,
\* however the transactions are spread over calendar months.
C16_SumDividedByWindowMonths ==
    AnalysisAsked =>
        \A k \in 1..Len(AnalysedProfile) :
            AnalysedProfile[k].monthly_amount * response.request.months
                = SumOver([i \in ExpensesInWindowOf(AnalysedProfile[k].category) |->
                              expenses[i].amount],
                          ExpensesInWindowOf(AnalysedProfile[k].category))

\* C17: the keys of the profile are exactly the categories in which the
\* user has a transaction dated inside the window, each once; a user with
\* no such transaction gets the empty profile.
C17_KeysAreCategoriesInWindow ==
    AnalysisAsked =>
        /\ AnalysedCategories
              = { Merchants[expenses[i].merchant_id].category : i \in ExpensesInWindow }
        /\ Cardinality(AnalysedCategories) = Len(AnalysedProfile)
        /\ ExpensesInWindow = {} =>
              /\ "spending_breakdown" \notin DOMAIN response
              /\ response.spending_pattern = << >>

\* a one-month window with one category in the profile, while the table
\* also holds an expense of the other category that is outside the window
\* or another user's
C17_Witness ==
    /\ AnalysisAsked
    /\ response.request.months = 1
    /\ Cardinality(AnalysedCategories) = 1
    /\ \E i \in 1..Len(expenses) :
          /\ i \notin ExpensesInWindow
          /\ Merchants[expenses[i].merchant_id].category \notin AnalysedCategories

(***************************************************************************)
(* Claims checked under SpecEngine.                                        *)
(***************************************************************************)
\* C18: every request served by the engine leaves the whole store as it
\* was: cards, rules, wallet records and expenses (merchants and categories
\* are fixed tables), whatever it returns.
C18_EngineIsReadOnly ==
    [][UNCHANGED <<credit_cards, card_rewards, user_cards, expenses,
                   categories, merchants>>]_vars

\* an optimize request returned combinations while the store holds wallet
\* records and expenses
C18_Witness ==
    /\ Optimized
    /\ response.combinations # << >>
    /\ user_cards # << >>
    /\ expenses # << >>

\* C19: a combination of one card whose only active rule is a category
\* rule with a monthly cap m (any m >= 0) is credited
\* min(a*12, m*12) * rate for the rule's category, a being the category's
\* monthly amount.
C19_CapTimesTwelveInCombination ==
    Optimized =>
        \A k \in 1..Len(response.combinations) :
            LET combo == response.combinations[k]
                rewards == ActiveRewards(combo.cards[1])
                P == OptimizedProfile
            IN  ( /\ Len(combo.cards) = 1
                  /\ Len(rewards) = 1
                  /\ rewards[1].category # NULL
                  /\ rewards[1].maximum_spend # NULL
                  /\ rewards[1].category[1] \in DOMAIN P ) =>
                    combo.projected_cashback + combo.projected_points
                        = Min(P[rewards[1].category[1]] * 12,
                              rewards[1].maximum_spend[1] * 12)
                              * rewards[1].reward_rate

(***************************************************************************)
(* More claims about calculate_card_rewards, under SpecCard.              *)
(***************************************************************************)
\* C20: for a profile category the card has no category rule for, the rate
\* applied is the rate of one of the card's rules with neither a category
\* nor a merchant scope, and nothing is credited when it has no such rule:
\* a merchant-scoped rule is never applied to the category's spending.
C20_FallbackUsesUnscopedRulesOnly ==
    Simulated =>
        \A c \in DOMAIN response.spending_pattern :
            SimulatedCategoryRules(c) = << >> =>
                LET applied == response.simulation_results.category_breakdown[c]
                IN  \/ applied.amount = 0
                    \/ \E k \in 1..Len(SimulatedGeneralRules) :
                          /\ applied.rate = SimulatedGeneralRules[k].reward_rate
                          /\ applied.type = SimulatedGeneralRules[k].reward_type

(***************************************************************************)
(* Claims about the wallet, checked under SpecWallet.                     *)
(***************************************************************************)
\* a recommendation names a held card and the positive reward of one of
\* that card's rules that apply to the purchase
RecommendationGrounded ==
    (Advised /\ Recommended) =>
        /\ response.recommendation.recommended_card \in HeldCards
        /\ response.recommendation.reward_amount > 0
        /\ \E k \in ApplicableRules(response.recommendation.recommended_card) :
              response.recommendation.reward_amount = Pays(k)

\* the step serves a purchase advice
AdviceStep ==
    /\ response'.request.op = "purchase_advice"
    /\ UNCHANGED <<user_cards, inflight>>

\* the last request removed a card from the wallet, and this step is an
\* advice to the same user
AdviceAfterRemoval ==
    /\ response.request.op = "remove_user_card"
    /\ response.status = 200
    /\ AdviceStep
    /\ response'.request.user_id = response.request.user_id

\* C21: whenever a card is recommended, the user holds an active record
\* for it, the card is active, and the reward is positive and is
\* amount * rate of an active rule of the card that applies to the
\* purchase; and the advice that follows the removal of a card from the
\* wallet does not recommend that card.
C21_OnlyHeldCardsRecommended ==
    [][ /\ AdviceStep => RecommendationGrounded'
        /\ (AdviceAfterRemoval /\ Recommended') =>
               response'.recommendation.recommended_card # response.request.card_id
      ]_vars

\* C25: there is at most one active UserCard record per (user, card).
C25_OneActiveRecordPerUserAndCard ==
    \A i, j \in 1..Len(user_cards) :
        ( /\ user_cards[i].user_id = user_cards[j].user_id
          /\ user_cards[i].credit_card_id = user_cards[j].credit_card_id
          /\ user_cards[i].is_active
          /\ user_cards[j].is_active ) => i = j

\* C28: the list optimize returns is the list of any store that differs
\* from the one it read only in its UserCard records: whatever was added
\* to or removed from the wallets since the request read them, the list is
\* the one computed on the store as it is now.
C28_OptimizeIgnoresWallet ==
    Optimized =>
        response.combinations
            = OptimizeCardCombination(response.request.user_id,
                                      response.request.max_cards)

\* optimize returned a card the user holds
C28_Witness ==
    /\ Optimized
    /\ response.combinations # << >>
    /\ ActiveUserCards(response.request.user_id,
                       response.combinations[1].cards[1]) # {}

\* the step serves a request to remove a card
RemoveStep ==
    /\ response'.request.op = "remove_user_card"
    /\ UNCHANGED inflight

\* C30: a removal for which the user has no active record returns 404 and
\* changes nothing; any other returns 200, sets is_active = False on
\* exactly one active record of that user and card, and neither deletes
\* nor changes any other record.
C30_RemoveIsSoftDelete ==
    [][ RemoveStep =>
          LET matching == ActiveUserCards(response'.request.user_id,
                                          response'.request.card_id)
          IN  /\ UNCHANGED <<credit_cards, card_rewards, expenses, categories, merchants>>
              /\ Len(user_cards') = Len(user_cards)
              /\ IF matching = {}
                 THEN response'.status = 404 /\ user_cards' = user_cards
                 ELSE /\ response'.status = 200
                      /\ \E k \in matching :
                            /\ ~user_cards'[k].is_active
                            /\ user_cards'[k].user_id = user_cards[k].user_id
                            /\ user_cards'[k].credit_card_id
                                  = user_cards[k].credit_card_id
                            /\ \A j \in 1..Len(user_cards) :
                                  j # k => user_cards'[j] = user_cards[j]
      ]_vars

\* a card was removed: the user's record is kept, inactive, next to the
\* record of another user for the same card
C30_Witness ==
    /\ response.request.op = "remove_user_card"
    /\ response.status = 200
    /\ \E k \in 1..Len(user_cards) :
          /\ user_cards[k].user_id = response.request.user_id
          /\ user_cards[k].credit_card_id = response.request.card_id
          /\ ~user_cards[k].is_active
    /\ \E k \in 1..Len(user_cards) :
          /\ user_cards[k].user_id # response.request.user_id
          /\ user_cards[k].credit_card_id = response.request.card_id
          /\ user_cards[k].is_active

\* C23: on a single card the two calculators agree: the combination of
\* the one simulated card has the total cashback and the total points
\* that calculate_card_rewards reported for the card and the profile.
C23_SingletonMatchesCardRewards ==
    Simulated =>
        LET combination_rewards ==
                CalculateCombinationRewards(<< response.request.card_id >>,
                                            response.spending_pattern)
        IN  /\ combination_rewards.total_cashback
                  = response.simulation_results.projected_cashback
            /\ combination_rewards.total_points
                  = response.simulation_results.projected_points

\* total_cashback + 0.01 * total_points of a set of cards for the profile
\* of the request, in 1/100000
GrossReward(S) ==
    LET combination_rewards ==
            CalculateCombinationRewards(Ascending(S), OptimizedProfile)
    IN  combination_rewards.total_cashback * PointsDen
            + combination_rewards.total_points

\* C24: adding cards never lowers the gross reward: for the profile of
\* the request and any sets S, T of cards of the catalog with S a subset
\* of T, the gross reward of T is at least that of S.
C24_GrossRewardMonotone ==
    (Optimized /\ ~NoSpendingData(OptimizedProfile)) =>
        \A T \in SUBSET (1..Len(credit_cards)) :
            \A S \in SUBSET T : GrossReward(T) >= GrossReward(S)

(***************************************************************************)
(* Claims about the expense handlers, under SpecExpenses.                 *)
(***************************************************************************)
\* the step serves user u's request to get, update or delete a given id
ExpenseStepOf(u) ==
    /\ response'.request.op \in {"get_expense", "update_expense", "delete_expense"}
    /\ response'.request.user_id = u

\* the row with that id belongs to another user
ForeignExpense(u, expense_id) ==
    \E k \in 1..Len(expenses) :
        expenses[k].id = expense_id /\ expenses[k].user_id # u

\* the step serves any expense request of user u
AnyExpenseStepOf(u) ==
    /\ response'.request.op \in {"create_expense", "get_expense",
                                  "update_expense", "delete_expense"}
    /\ response'.request.user_id = u

\* C29: get, update and delete by user u on an expense of another user
\* return 404 and leave every expense as it was; and no expense request
\* of u changes the spending profile of any other user (compared across
\* the steps that write to the table).
C29_ExpensesOfOthersUntouched ==
    [][ \A u \in UserIds :
          /\ (ExpenseStepOf(u) /\ ForeignExpense(u, response'.request.expense_id))
                => (response'.status = 404 /\ UNCHANGED expenses)
          /\ (AnyExpenseStepOf(u) /\ expenses' # expenses) =>
                \A v \in UserIds \ {u} :
                    GetUserSpendingPattern(v, DefaultMonths)'
                        = GetUserSpendingPattern(v, DefaultMonths)
      ]_vars

\* user 1 asked for the expense of user 2, which is still in the table
\* next to an expense that user 1 changed
C29_Witness ==
    /\ response.request.op \in {"update_expense", "delete_expense"}
    /\ response.request.user_id = 1
    /\ response.status = 404
    /\ \E k \in 1..Len(expenses) :
          expenses[k].id = response.request.expense_id /\ expenses[k].user_id = 2
    /\ \E k \in 1..Len(expenses) :
          expenses[k].user_id = 1 /\ expenses[k].amount = 50

(***************************************************************************)
(* Claims about the seeding operations, under SpecSeed.                   *)
(***************************************************************************)
SeedOperations ==
    { "initialize_malaysian_credit_cards_and_rewards",
      "init_data.initialize_malaysian_merchants",
      "/initialize-malaysian-merchants",
      "/initialize-malaysian-cards" }

\* C26: in whatever order and however often the seeding operations run,
\* every run completes or is a no-op: none tries to insert a Category
\* whose unique name is already in the table.
C26_SeedingCompletesOrNoOp ==
    response.request.op \in SeedOperations =>
        response.outcome \in {"completed", "no-op"}

\* the active "General" rewards of the simulated card, as seeded
SimulatedSeedGeneral ==
    { k \in 1..Len(card_rewards) :
        /\ card_rewards[k].credit_card_id = response.request.card_id
        /\ card_rewards[k].is_active
        /\ card_rewards[k].category = Some("General") }

\* C27: on the seeded catalog a profile category for which the simulated
\* card has no rule of its own is credited at the rate of the card's
\* "General" reward, not zero.
C27_SeededGeneralIsCatchAll ==
    Simulated =>
        \A c \in DOMAIN response.spending_pattern :
            (SimulatedCategoryRules(c) = << >> /\ SimulatedSeedGeneral # {}) =>
                \E k \in SimulatedSeedGeneral :
                    response.simulation_results.category_breakdown[c].amount
                        = response.spending_pattern[c] * MonthsPerYear
                              * card_rewards[k].reward_rate

(***************************************************************************)
(* Claims about requests that overlap a write, under SpecSnapshot.        *)
(***************************************************************************)
\* the lists optimize returned from the stores that commits replaced
ReplacedStores ==
    { inflight[w].replaced : w \in { v \in Workers : inflight[v].pc = "committed" } }

\* C22: the list one optimize request returns is the list of one state of
\* the cards and rules that existed during the request: of the store as
\* it is, or of a store that a commit replaced.
C22_OneSnapshotPerRequest ==
    (Optimized /\ response.request.user_id = 1) =>
        \/ response.combinations = OptimizeNow(1)[response.request.max_cards]
        \/ \E replaced \in ReplacedStores :
              response.combinations = replaced[response.request.max_cards]

=============================================================================
